---- MODULE Spec2Model ----
(***************************************************************************)
(* Sign-In with Bitcoin (ic-siwb): the login engine of                     *)
(* packages/ic_siwb/src/login.rs.                                          *)
(*                                                                         *)
(* Byte strings are sequences of bytes.  A public key is written in units: *)
(* one tag byte followed by 32-byte coordinates, each coordinate one       *)
(* element, so a compressed key has 2 elements (33 bytes) and an           *)
(* uncompressed key 3 (65 bytes).  Text strings are sequences of           *)
(* one-character strings, the encoded payload of an address being one      *)
(* element.  Hash functions are injective tokens of their input.           *)
(***************************************************************************)
EXTENDS Integers, Sequences, FiniteSets, TLC

\* ------------------------------------------------------------------ bounds
MaxTime == 2            \* the clock runs over 0..MaxTime
MaxPrepares == 2        \* prepare_login calls made in a run
U64Max == 3             \* u64::MAX on the model's scale of time
MAX_SIGS_TO_PRUNE == 10
SIG_EXPIRY == 1         \* how long a signature-map entry is kept live
U8 == 256               \* 2^8: the width of u8 arithmetic

\* ------------------------------------------------------- results of calls
Ok(v) == [ok |-> TRUE, val |-> v]
Err(e) == [ok |-> FALSE, err |-> e]
Panic == [ok |-> FALSE, err |-> "panic"]
IsOk(r) == r.ok
IsPanic(r) == r = Panic

Min(a, b) == IF a < b THEN a ELSE b

\* ------------------------------------------------------------ secp256k1
\* A point of the curve: its x coordinate and the tag (2 even y, 3 odd y)
\* of its compressed encoding; a point and its negation share x.
Points == {[x |-> 1, tag |-> 2], [x |-> 1, tag |-> 3], [x |-> 2, tag |-> 3]}
YOf(p) == 10 * p.x + p.tag
\* The code of a point inside the idealised signature below.
PointCode(p) == 2 * p.x + (p.tag - 2)
\* The point a well-formed signature recovers to when the digest or the
\* recovery id is not the one it was made with: a key nobody of the model holds.
Stranger == [x |-> 2, tag |-> 2]

\* to_encoded_point(true) / PublicKey::inner.serialize(): SEC1 compressed
Compressed(p) == <<p.tag, p.x>>
\* SEC1 uncompressed: 0x04, x, y
Uncompressed(p) == <<4, p.x, YOf(p)>>

\* ------------------------------------------------------------- u8 arithmetic
\* A subtraction, multiplication or addition of u8 that leaves 0..255 panics
\* in a build with overflow checks and wraps in a build without them.
SubU8(a, b, checks) ==
    IF a >= b THEN Ok(a - b)
    ELSE IF checks THEN Panic ELSE Ok((a - b + U8) % U8)
MulU8(a, b, checks) ==
    IF a * b < U8 THEN Ok(a * b)
    ELSE IF checks THEN Panic ELSE Ok((a * b) % U8)
AddU8(a, b, checks) ==
    IF a + b < U8 THEN Ok(a + b)
    ELSE IF checks THEN Panic ELSE Ok((a + b) % U8)

\* while v > 3 { v = v - 4 }
RECURSIVE Reduce4(_)
Reduce4(v) == IF v > 3 THEN Reduce4(v - 4) ELSE v

\* Option<u8>: <<>> is None, <<c>> is Some(c).
None == <<>>
Some(c) == <<c>>

\* calculate_sig_recovery(v, chain_id)
calculate_sig_recovery(v, chain_id, checks) ==
    IF v = 0 \/ v = 1 THEN Ok(v)
    ELSE IF chain_id = None
    THEN LET d == SubU8(v, 27, checks)
         IN  IF IsOk(d) THEN Ok(Reduce4(d.val)) ELSE Panic
    ELSE LET m == MulU8(chain_id[1], 2, checks)
             a == IF IsOk(m) THEN AddU8(m.val, 35, checks) ELSE Panic
             d == IF IsOk(a) THEN SubU8(v, a.val, checks) ELSE Panic
         IN  IF IsOk(d) THEN Ok(Reduce4(d.val)) ELSE Panic

\* ---------------------------------------------------- compact signatures
Zeros(n) == [i \in 1..n |-> 0]
\* An idealised ECDSA signature over digest `dg` by the holder of point p,
\* whose true recovery id is rho: r (32 bytes) names the signer, the
\* recovery id and the digest; s (32 bytes) has its high bit `hi`.
R32(p, dg, rho) == <<PointCode(p), rho, dg>> \o Zeros(29)
S32(hi) == <<128 * hi + 1>> \o Zeros(31)
\* 65-byte compact form: byte 0 is the recovery flag v.
Sig65(v, p, dg, rho) == <<v>> \o R32(p, dg, rho) \o S32(0)
\* 64-byte compact form: r, then s with the recovery bit in its high bit.
Sig64(p, dg, rho) == R32(p, dg, rho) \o S32(rho)

\* Signature::from_slice: r and s must be non-zero scalars.
SignatureFromSlice(r, s) ==
    IF r = Zeros(32) \/ s = Zeros(32) THEN Err("InvalidSignature")
    ELSE Ok([r |-> r, s |-> s])
\* VerifyingKey::recover_from_prehash
RecoverFromPrehash(hash, sig, rid) ==
    LET signer == {p \in Points : PointCode(p) = sig.r[1]}
    IN  IF signer # {} /\ sig.r[3] = hash /\ sig.r[2] = rid
        THEN Ok(CHOOSE p \in signer : TRUE)
        ELSE IF rid <= 1 THEN Ok(Stranger)
        ELSE Err("PublicKeyRecoveryFailure")

\* recover_pub_key_compact(signature_bytes, message_hash, chain_id):
\* both slices are taken before the length is looked at.
recover_pub_key_compact(sb, hash, chain_id, checks) ==
    IF Len(sb) < 33 THEN Panic          \* signature_bytes[1..33]
    ELSE IF Len(sb) < 65 THEN Panic     \* signature_bytes[33..65]
    ELSE
    LET r == SubSeq(sb, 2, 33)
        s0 == SubSeq(sb, 34, 65)
        long == Len(sb) >= 65
        v0 == IF long THEN sb[1] ELSE sb[34] \div 128
        s == IF long THEN s0 ELSE [s0 EXCEPT ![1] = @ % 128]
        v == IF v0 < 27 THEN v0 + 27 ELSE v0
        rid == calculate_sig_recovery(v, chain_id, checks)
        sig == SignatureFromSlice(r, s)
        key == RecoverFromPrehash(hash, sig.val, rid.val)
    IN  IF Len(r) > 32 \/ Len(s) > 32 THEN Err("malformed signature")
        ELSE IF IsPanic(rid) THEN Panic
        ELSE IF rid.val > 3 THEN Err("invalid recovery id")
        ELSE IF ~IsOk(sig) THEN sig
        ELSE IF ~IsOk(key) THEN key
        ELSE Ok(Compressed(key.val))

\* -------------------------------------------------------------- addresses
AllPoints == Points \cup {Stranger}
\* bitcoin::PublicKey::from_slice: 33 bytes with tag 2 or 3 is a compressed
\* key, 65 bytes with tag 4 an uncompressed one, anything else an error.
PublicKeyFromSlice(bytes) ==
    IF Len(bytes) = 2 /\ \E q \in AllPoints : Compressed(q) = bytes
    THEN Ok([compressed |-> TRUE,
             inner |-> CHOOSE q \in AllPoints : Compressed(q) = bytes])
    ELSE IF Len(bytes) = 3 /\ \E q \in AllPoints : Uncompressed(q) = bytes
    THEN Ok([compressed |-> FALSE,
             inner |-> CHOOSE q \in AllPoints : Uncompressed(q) = bytes])
    ELSE Err("invalid public key")
\* PublicKey::to_bytes: the encoding the key was given in.
KeyBytes(pk) == IF pk.compressed THEN Compressed(pk.inner) ELSE Uncompressed(pk.inner)
\* XOnlyPublicKey::from_slice: exactly 32 bytes, the x of a point.
XOnlyFromSlice(bytes) ==
    IF Len(bytes) = 1 /\ \E q \in AllPoints : q.x = bytes[1]
    THEN Ok(bytes[1]) ELSE Err("invalid x-only key")

\* bitcoin::Address: the payload kind, the payload (a hash of the key
\* material, an injective token of it) and the network.
Kinds == {"P2pkh", "P2sh", "P2wpkh", "P2tr"}
Networks == {"Bitcoin", "Testnet"}
Address(kind, data, network) == [kind |-> kind, data |-> data, network |-> network]
AddressP2pkh(pk, network) == Address("P2pkh", KeyBytes(pk), network)
AddressP2wpkh(pk, network) ==
    IF pk.compressed THEN Ok(Address("P2wpkh", KeyBytes(pk), network))
    ELSE Err("uncompressed key")
AddressP2shwpkh(pk, network) ==
    IF pk.compressed THEN Ok(Address("P2sh", KeyBytes(pk), network))
    ELSE Err("uncompressed key")
AddressP2tr(x, network) == Address("P2tr", <<x>>, network)

\* Address::to_string: base58check (P2PKH, P2SH) or bech32(m) text.  The
\* text starts with the characters the version byte or the human-readable
\* part and witness version produce; the encoded payload is one element.
AddrPrefix(a) ==
    CASE a.kind = "P2wpkh" /\ a.network = "Bitcoin" -> <<"b", "c", "1", "q">>
      [] a.kind = "P2wpkh" /\ a.network = "Testnet" -> <<"t", "b", "1", "q">>
      [] a.kind = "P2tr" /\ a.network = "Bitcoin" -> <<"b", "c", "1", "p">>
      [] a.kind = "P2tr" /\ a.network = "Testnet" -> <<"t", "b", "1", "p">>
      [] a.kind = "P2pkh" /\ a.network = "Bitcoin" -> <<"1">>
      [] a.kind = "P2pkh" /\ a.network = "Testnet" ->
            IF a.data[1] % 2 = 0 THEN <<"m">> ELSE <<"n">>
      [] a.kind = "P2sh" /\ a.network = "Bitcoin" -> <<"3">>
      [] a.kind = "P2sh" /\ a.network = "Testnet" -> <<"2">>
AddrToString(a) == AddrPrefix(a) \o <<ToString(<<a.kind, ToString(a.data)>>)>>
\* Address::script_pubkey().to_bytes(): the script of the payload; the
\* network is not part of it.
ScriptPubkey(a) == <<a.kind, ToString(a.data)>>

\* str::starts_with
StartsWith(str, pre) == Len(str) >= Len(pre) /\ SubSeq(str, 1, Len(pre)) = pre

\* A selection that reads the type from the prefix and takes every address
\* for a mainnet one.
SelectTypeOnly(address) ==
    IF StartsWith(address, <<"b", "c", "1", "q">>) \/ StartsWith(address, <<"t", "b", "1", "q">>)
    THEN <<"P2wpkh", "Bitcoin">>
    ELSE IF StartsWith(address, <<"1">>) \/ StartsWith(address, <<"m">>)
            \/ StartsWith(address, <<"n">>)
    THEN <<"P2pkh", "Bitcoin">>
    ELSE IF StartsWith(address, <<"3">>) \/ StartsWith(address, <<"2">>)
    THEN <<"P2sh", "Bitcoin">>
    ELSE <<"P2tr", "Bitcoin">>
\* A selection whose fallback is P2WPKH on mainnet.
SelectDefaultSegwit(address) ==
    IF StartsWith(address, <<"b", "c", "1", "p">>) THEN <<"P2tr", "Bitcoin">>
    ELSE IF StartsWith(address, <<"1">>) THEN <<"P2pkh", "Bitcoin">>
    ELSE IF StartsWith(address, <<"3">>) THEN <<"P2sh", "Bitcoin">>
    ELSE IF StartsWith(address, <<"t", "b", "1", "q">>) THEN <<"P2wpkh", "Testnet">>
    ELSE IF StartsWith(address, <<"m">>) \/ StartsWith(address, <<"n">>)
         THEN <<"P2pkh", "Testnet">>
    ELSE IF StartsWith(address, <<"2">>) THEN <<"P2sh", "Testnet">>
    ELSE IF StartsWith(address, <<"t", "b", "1", "p">>) THEN <<"P2tr", "Testnet">>
    ELSE <<"P2wpkh", "Bitcoin">>
\* verify_address, the match on the prefix: the type and network it selects.
SelectTypeNetwork(address) ==
    IF StartsWith(address, <<"b", "c", "1", "q">>) THEN <<"P2wpkh", "Bitcoin">>
    ELSE IF StartsWith(address, <<"b", "c", "1", "p">>) THEN <<"P2tr", "Bitcoin">>
    ELSE IF StartsWith(address, <<"1">>) THEN <<"P2pkh", "Bitcoin">>
    ELSE IF StartsWith(address, <<"3">>) THEN <<"P2sh", "Bitcoin">>
    ELSE IF StartsWith(address, <<"t", "b", "1", "q">>) THEN <<"P2wpkh", "Testnet">>
    ELSE IF StartsWith(address, <<"m">>) \/ StartsWith(address, <<"n">>)
         THEN <<"P2pkh", "Testnet">>
    ELSE IF StartsWith(address, <<"2">>) THEN <<"P2sh", "Testnet">>
    ELSE IF StartsWith(address, <<"t", "b", "1", "p">>) THEN <<"P2tr", "Testnet">>
    ELSE <<"P2tr", "Bitcoin">>

\* verify_address(address, pub_bytes): derives the address of the key under
\* the selected type and network and returns its text.
verify_address(address, pub_bytes) ==
    LET pk == PublicKeyFromSlice(pub_bytes)
        sel == SelectTypeNetwork(address)
        address_type == sel[1]
        network == sel[2]
        compressed == IF ~pk.val.compressed
                      THEN PublicKeyFromSlice(Compressed(pk.val.inner)).val
                      ELSE pk.val
        p2wpkh == AddressP2wpkh(compressed, network)
        p2sh == AddressP2shwpkh(compressed, network)
        internal_key == XOnlyFromSlice(Tail(pub_bytes))
    IN  IF ~IsOk(pk) THEN pk
        ELSE CASE address_type = "P2pkh" ->
                    Ok(AddrToString(AddressP2pkh(pk.val, network)))
               [] address_type = "P2wpkh" ->
                    IF IsOk(p2wpkh) THEN Ok(AddrToString(p2wpkh.val)) ELSE p2wpkh
               [] address_type = "P2sh" ->
                    IF IsOk(p2sh) THEN Ok(AddrToString(p2sh.val)) ELSE p2sh
               [] address_type = "P2tr" ->
                    IF IsOk(internal_key)
                    THEN Ok(AddrToString(AddressP2tr(internal_key.val, network)))
                    ELSE internal_key

\* The address of the compressed key of point p under a type and network.
CompressedKey(p) == [compressed |-> TRUE, inner |-> p]
GenuineAddress(p, kind, network) ==
    CASE kind = "P2pkh" -> AddressP2pkh(CompressedKey(p), network)
      [] kind = "P2wpkh" -> AddressP2wpkh(CompressedKey(p), network).val
      [] kind = "P2sh" -> AddressP2shwpkh(CompressedKey(p), network).val
      [] kind = "P2tr" -> AddressP2tr(p.x, network)

\* ------------------------------------------------------------ the state
VARIABLES
    now,              \* get_current_time()
    settings,         \* SETTINGS: session_expires_in and the challenge ttl
    overflow_checks,  \* whether the build panics on integer overflow
    siwb_messages,    \* SIWB_MESSAGES: script bytes -> SiwbMessage
    signature_map,    \* the SignatureMap handed to login
    probe,            \* a pure function under test: its input and its result
    prepares,         \* prepare_login calls made
    credit,           \* per address: prepare_login calls made for it minus
                      \* login calls for it that returned Ok
    last_prep         \* per script: the message of the latest prepare_login
                      \* that no login has consumed

vars == <<now, settings, overflow_checks, siwb_messages, signature_map, probe,
          prepares, credit, last_prep>>

\* The wallet of the model: the holders of two keys, the first with the
\* mainnet and the testnet encoding of the same P2WPKH script.
Owner1 == [x |-> 1, tag |-> 2]
Owner2 == [x |-> 2, tag |-> 3]
AddrList == <<GenuineAddress(Owner1, "P2wpkh", "Bitcoin"),
              GenuineAddress(Owner1, "P2wpkh", "Testnet"),
              GenuineAddress(Owner2, "P2tr", "Bitcoin")>>
LoginAddrs == {AddrList[i] : i \in 1..Len(AddrList)}
Signers == {Owner1, Owner2}
\* The true recovery id of a signature of p's holder.
Rho(p) == p.x % 2

\* SiwbMessageMap::new(): no challenge is stored.
EmptyMap == <<>>

\* ------------------------------------------------ challenges (siwb.rs)
\* SiwbMessage::new(address): the challenge issued now for the address.
SiwbMessageNew(address) == [address |-> address, issued_at |-> now]
\* String::from(SiwbMessage): the text a wallet signs names the address
\* and the time of issue.
MessageString(m) == [address |-> AddrToString(m.address), issued_at |-> m.issued_at]
\* SiwbMessageMap::insert: upsert.
MapInsert(map, key, m) ==
    [k \in DOMAIN map \cup {key} |-> IF k = key THEN m ELSE map[k]]
\* SiwbMessageMap::get
MapGet(map, key) ==
    IF key \in DOMAIN map THEN Ok(map[key]) ELSE Err("MessageNotFound")
\* SiwbMessageMap::remove
MapRemove(map, key) == [k \in DOMAIN map \ {key} |-> map[k]]
\* An entry is expired when issued_at + ttl < now.
Expired(m, t) == m.issued_at + settings.ttl < t
\* SiwbMessageMap::prune_expired
MapPruneExpired(map) ==
    [k \in {j \in DOMAIN map : ~Expired(map[j], now)} |-> map[k]]

\* ------------------------------------------------ BufferWriter::varint_buf_num
\* An i64 that is not negative is written in four 16-bit limbs, lowest
\* first: <<l0, l1, l2, l3>> with l3 below 2^15.
Limb == 65536
\* LittleEndian::write_u16
LE16(l) == <<l % 256, l \div 256>>
\* The two's complement of a 32-bit value in two limbs: 2^32 - value, and 0 of 0.
Negate32(w) ==
    IF w[1] = 0 THEN <<0, (Limb - w[2]) % Limb>> ELSE <<Limb - w[1], Limb - 1 - w[2]>>
\* (n & -1) as i32: the low 32 bits of n read as a signed value, its sign
\* and its magnitude.
AsI32(n) ==
    IF n[2] >= Limb \div 2
    THEN [neg |-> TRUE, mag |-> Negate32(<<n[1], n[2]>>)]
    ELSE [neg |-> FALSE, mag |-> <<n[1], n[2]>>]
\* A write of the magnitude, the sign dropped.
WriteMagnitude(x) == LE16(x.mag[1]) \o LE16(x.mag[2])
\* LittleEndian::write_i32: the four bytes of the two's complement.
WriteI32(x) ==
    LET w == IF x.neg THEN Negate32(x.mag) ELSE x.mag
    IN  LE16(w[1]) \o LE16(w[2])
\* (n / 0x100000000) as u32, written by LittleEndian::write_u32
HighU32(n) == LE16(n[3]) \o LE16(n[4])
varint_buf_num(n) ==
    IF n[4] = 0 /\ n[3] = 0 /\ n[2] = 0 /\ n[1] < 253 THEN <<n[1]>>
    ELSE IF n[4] = 0 /\ n[3] = 0 /\ n[2] = 0 THEN <<253>> \o LE16(n[1])
    ELSE IF n[4] = 0 /\ n[3] = 0 THEN <<254>> \o LE16(n[1]) \o LE16(n[2])
    ELSE <<255>> \o WriteI32(AsI32(n)) \o HighU32(n)

\* --------------------------------------------- message digest, base64, hex
\* _msg_hash: double SHA-256 of the framed text, an injective code of it.
msg_hash(text) ==
    LET a == CHOOSE i \in 1..Len(AddrList) : AddrToString(AddrList[i]) = text.address
    IN  1 + text.issued_at + (MaxTime + 2) * a
\* A base64 or hex text: either not decodable, or the bytes it decodes to.
Undecodable == [valid |-> FALSE, bytes |-> <<>>]
Encoded(bytes) == [valid |-> TRUE, bytes |-> bytes]
Decode(text) == IF text.valid THEN Ok(text.bytes) ELSE Err("decode")

\* A verification that recovers the key and does not compare it.
VerifyWithoutCompare(message, signature, public_key) ==
    LET signature_bytes == Decode(signature)
        public_key_bytes == Decode(public_key)
    IN  IF ~IsOk(signature_bytes) THEN Err("Invalid b64 signature")
        ELSE IF ~IsOk(public_key_bytes) THEN Err("Invalid public key")
        ELSE recover_pub_key_compact(signature_bytes.val, msg_hash(message),
                                     None, overflow_checks)
\* _verify_message(message, signature, public_key)
verify_message(message, signature, public_key) ==
    LET message_prehashed == msg_hash(message)
        signature_bytes == Decode(signature)
        public_key_bytes == Decode(public_key)
        recovered == recover_pub_key_compact(signature_bytes.val, message_prehashed,
                                             None, overflow_checks)
    IN  IF ~IsOk(signature_bytes) THEN Err("Invalid b64 signature")
        ELSE IF ~IsOk(public_key_bytes) THEN Err("Invalid public key")
        ELSE IF ~IsOk(recovered) THEN recovered
        ELSE IF public_key_bytes.val # recovered.val
             THEN Err("public_key_bytes != recovered_public_key")
        ELSE Ok(recovered.val)

\* ---------------------------------------- delegation (delegation.rs, hash.rs)
\* u64::saturating_add
SaturatingAdd(a, b) == Min(a + b, U64Max)
\* generate_seed(address): a function of the salt and the script bytes.
generate_seed(address) == <<"seed", ScriptPubkey(address)>>
\* hash::hash_bytes
hash_bytes(seed) == <<"sha256", seed>>
SessionKeys == {<<>>, <<7>>}
\* create_delegation: fails on a session key that is structurally invalid.
create_delegation(session_key, expiration) ==
    IF session_key = <<>> THEN Err("DelegationError")
    ELSE Ok([pubkey |-> session_key, expiration |-> expiration])
\* create_delegation_hash
create_delegation_hash(delegation) ==
    [hash_of_pubkey |-> delegation.pubkey, hash_of_expiration |-> delegation.expiration]
CanisterIds == {"canister", "canister_der_fails"}
\* create_user_canister_pubkey: fails when the DER construction fails.
create_user_canister_pubkey(canister_id, seed) ==
    IF canister_id = "canister_der_fails" THEN Err("ASN1EncodeErr")
    ELSE Ok([canister_id |-> canister_id, seed |-> seed])

\* ------------------------------------------- signature map (signature_map.rs)
\* SignatureMap::put: insert or replace the entry of the key.
SigMapPut(map, key_hash, value_hash) ==
    MapInsert(map, key_hash, [value |-> value_hash, expires_at |-> now + SIG_EXPIRY])
\* SignatureMap::prune_expired: up to max_to_prune expired entries, oldest first.
RECURSIVE SigMapPruneExpired(_, _, _)
SigMapPruneExpired(map, t, max_to_prune) ==
    LET expired == {k \in DOMAIN map : map[k].expires_at < t}
        oldest == CHOOSE k \in expired :
                     \A j \in expired : map[k].expires_at <= map[j].expires_at
    IN  IF max_to_prune = 0 \/ expired = {} THEN map
        ELSE SigMapPruneExpired(MapRemove(map, oldest), t, max_to_prune - 1)

\* A pruning pass without a bound on the entries it removes.
PruneAllSignatures(map) == SigMapPruneExpired(map, now, Cardinality(DOMAIN map))
\* login, step 6: signature_map.prune_expired(get_current_time(), MAX_SIGS_TO_PRUNE)
PruneSignatures(map) == SigMapPruneExpired(map, now, MAX_SIGS_TO_PRUNE)

\* A put keyed by the delegation, so that every new delegation adds an entry.
PutPerDelegation(map, seed, delegation_hash) ==
    SigMapPut(map,
              hash_bytes(<<"seed", <<"session", ToString(delegation_hash.hash_of_expiration)>>>>),
              delegation_hash)
\* A put under the seed itself, the hashing forgotten.
PutUnderSeed(map, seed, delegation_hash) == SigMapPut(map, seed, delegation_hash)
\* login, step 6: signature_map.put(hash::hash_bytes(seed), delegation_hash)
PutDelegation(map, seed, delegation_hash) ==
    SigMapPut(map, hash_bytes(seed), delegation_hash)

\* ------------------------------------------------------------------ login
LoginResult(kind, expiration, pubkey) ==
    [kind |-> kind, expiration |-> expiration, user_canister_pubkey |-> pubkey]
Failed(kind) == LoginResult(kind, 0, <<>>)
\* What one login call did: its result, the two stores as it leaves them,
\* and which of its steps ran.
Outcome(result, messages, sigmap, had, step3, recovered, removed, put) ==
    [result |-> result, messages |-> messages, sigmap |-> sigmap, had |-> had,
     step3 |-> step3, recovered |-> recovered, removed |-> removed, put |-> put]

\* A lookup that trusts the store without pruning it first.
GetWithoutPrune(address_bytes) ==
    [messages |-> siwb_messages, message |-> MapGet(siwb_messages, address_bytes)]
\* A lookup that takes the challenge out of the store as it reads it.
GetAndTake(address_bytes) ==
    LET pruned == MapPruneExpired(siwb_messages)
    IN  [messages |-> MapRemove(pruned, address_bytes),
         message |-> MapGet(pruned, address_bytes)]
\* login, step 1: prune the expired challenges, then get the address's one.
PruneThenGet(address_bytes) ==
    LET pruned == MapPruneExpired(siwb_messages)
    IN  [messages |-> pruned, message |-> MapGet(pruned, address_bytes)]
\* A login that leaves the challenge in the store.
KeepChallenge(messages, address_bytes) == messages
\* A login that clears the whole store.
ConsumeAll(messages, address_bytes) == EmptyMap
\* login, step 4: the challenge is removed so it cannot be used again.
Consume(messages, address_bytes) == MapRemove(messages, address_bytes)
\* An expiration counted from the time of the login call.
ExpirationFromNow(message) == SaturatingAdd(now, settings.session_expires_in)
\* login, step 5: message.issued_at.saturating_add(session_expires_in)
expiration(message) == SaturatingAdd(message.issued_at, settings.session_expires_in)

\* login(signature, address, public_key, session_key, signature_map, canister_id)
login(signature, address, public_key, session_key, canister_id) ==
    LET address_bytes == ScriptPubkey(address)
        got == PruneThenGet(address_bytes)
        pruned == got.messages
        message == got.message
        v == verify_message(MessageString(message.val), signature, public_key)
        va == verify_address(AddrToString(address), v.val)
        consumed == Consume(pruned, address_bytes)
        seed == generate_seed(address)
        sm_pruned == PruneSignatures(signature_map)
        delegation == create_delegation(session_key, expiration(message.val))
        delegation_hash == create_delegation_hash(delegation.val)
        sm_put == PutDelegation(sm_pruned, seed, delegation_hash)
        user_canister_pubkey == create_user_canister_pubkey(canister_id, seed)
    IN  IF ~IsOk(message)
        THEN Outcome(Failed("MessageNotFound"), pruned, signature_map,
                     <<>>, "none", <<>>, FALSE, FALSE)
        ELSE IF IsPanic(v)
        THEN Outcome(Failed("panic"), pruned, signature_map,
                     <<message.val>>, "panic", <<>>, FALSE, FALSE)
        ELSE IF ~IsOk(v)
        THEN Outcome(Failed("AddressMismatch"), pruned, signature_map,
                     <<message.val>>, "err", <<>>, FALSE, FALSE)
        ELSE IF ~IsOk(va)
        THEN Outcome(Failed("AddressMismatch"), pruned, signature_map,
                     <<message.val>>, "err", v.val, FALSE, FALSE)
        ELSE IF ~IsOk(delegation)
        THEN Outcome(Failed("DelegationError"), consumed, sm_pruned,
                     <<message.val>>, "ok", v.val, TRUE, FALSE)
        ELSE IF ~IsOk(user_canister_pubkey)
        THEN Outcome(Failed("ASN1EncodeErr"), consumed, sm_put,
                     <<message.val>>, "ok", v.val, TRUE, TRUE)
        ELSE Outcome(LoginResult("Ok", expiration(message.val), user_canister_pubkey.val),
                     consumed, sm_put, <<message.val>>, "ok", v.val, TRUE, TRUE)

\* A prepare_login that keeps a challenge already stored for the address.
PrepareKeepsPending(address) ==
    LET key == ScriptPubkey(address)
        message == IF key \in DOMAIN siwb_messages
                   THEN siwb_messages[key] ELSE SiwbMessageNew(address)
    IN  [messages |-> MapInsert(siwb_messages, key, message), result |-> Ok(message)]
\* prepare_login(address): the challenge store after the call, and the message.
prepare_login(address) ==
    LET message == SiwbMessageNew(address)
    IN  [messages |-> MapInsert(siwb_messages, ScriptPubkey(address), message),
         result |-> Ok(message)]

\* --------------------------------------------------- the callers' inputs
\* The message a signer is shown for the address: the stored challenge, or
\* the one a prepare_login would issue now when none is stored.
Shown(address) ==
    IF ScriptPubkey(address) \in DOMAIN siwb_messages
    THEN siwb_messages[ScriptPubkey(address)] ELSE SiwbMessageNew(address)
\* The digest a signature over no stored message is made for.
StaleDigest ==
    msg_hash(MessageString([address |-> AddrList[1], issued_at |-> MaxTime + 1]))
\* The 65-byte signature of p's holder over the shown message: flag
\* 31 + recovery id (compressed key).
OwnSig(p, address) ==
    Encoded(Sig65(31 + Rho(p), p, msg_hash(MessageString(Shown(address))), Rho(p)))
\* The first owner's signature over another message.
StaleSig == Encoded(Sig65(31 + Rho(Owner1), Owner1, StaleDigest, Rho(Owner1)))
\* The first owner's signature over the shown message in 64-byte form.
ShortSig(address) ==
    Encoded(Sig64(Owner1, msg_hash(MessageString(Shown(address))), Rho(Owner1)))
GoodSession == <<<<7>>, "canister">>
\* Session key and canister id: a failing DER construction is reached only
\* with a valid session key.
SessionInputs ==
    {<<k, c>> \in SessionKeys \X CanisterIds : k = <<>> => c = "canister"}
\* What a caller may send for the address, as <<signature, public_key,
\* <<session_key, canister_id>>>>: each signer's signature with the signer's
\* key and every session input; with a good session, the first owner's
\* signature with the uncompressed form of the key, with another key and
\* with a key that is not hex, a signature made for another message with the
\* owner's key, a signature that is not base64, and a 64-byte signature.
Attempts(address) ==
    {<<OwnSig(p, address), Encoded(Compressed(p)), ses>> :
        p \in Signers, ses \in SessionInputs} \cup
    {<<OwnSig(Owner1, address), Encoded(Uncompressed(Owner1)), GoodSession>>,
     <<OwnSig(Owner1, address), Encoded(Compressed(Owner2)), GoodSession>>,
     <<OwnSig(Owner1, address), Undecodable, GoodSession>>,
     <<StaleSig, Encoded(Compressed(Owner1)), GoodSession>>,
     <<Undecodable, Encoded(Compressed(Owner1)), GoodSession>>,
     <<ShortSig(address), Encoded(Compressed(Owner1)), GoodSession>>}
\* The login call an attempt makes.
LoginOf(address, try) == login(try[1], address, try[2], try[3][1], try[3][2])
\* The holder of the key the address was derived from.
Owner(address) ==
    CHOOSE p \in Signers :
        \E kind \in Kinds, network \in Networks : GenuineAddress(p, kind, network) = address
\* The owner's signature over the shown message, with the owner's key, a
\* valid session key and a canister id whose key can be built.
ValidTry(address) ==
    <<OwnSig(Owner(address), address), Encoded(Compressed(Owner(address))), GoodSession>>
SettingsChoices ==
    {[ttl |-> 1, session_expires_in |-> 0],
     [ttl |-> 1, session_expires_in |-> 3]}

\* ---------------------------------------------------------------- actions
\* No pure function is under test.
NoProbe == [fn |-> "none"]

\* login recovers with no chain id and a flag that is at least 27 once
\* raised, where the builds with and without overflow checks agree; the
\* two builds are told apart where the pure functions are applied.
Init ==
    /\ now = 0
    /\ settings \in SettingsChoices
    /\ overflow_checks = FALSE
    /\ siwb_messages = EmptyMap
    /\ signature_map = EmptyMap
    /\ probe = NoProbe
    /\ prepares = 0
    /\ credit = [a \in LoginAddrs |-> 0]
    /\ last_prep = EmptyMap

\* The clock of the host moves on between calls.
Tick ==
    /\ now < MaxTime
    /\ now' = now + 1
    /\ UNCHANGED <<settings, overflow_checks, siwb_messages, signature_map, probe,
                   prepares, credit, last_prep>>

\* The sum of a counter over a set of addresses.
RECURSIVE Sum(_, _)
Sum(count, addrs) ==
    IF addrs = {} THEN 0
    ELSE LET a == CHOOSE a \in addrs : TRUE
         IN  count[a] + Sum(count, addrs \ {a})
\* The addresses that are encodings of one script.
SameScript(key) == {a \in LoginAddrs : ScriptPubkey(a) = key}

PrepareLogin ==
    \E address \in LoginAddrs :
        LET out == prepare_login(address)
        IN  /\ prepares < MaxPrepares
            /\ prepares' = prepares + 1
            /\ siwb_messages' = out.messages
            /\ credit' = [credit EXCEPT ![address] = @ + 1]
            /\ last_prep' = MapInsert(last_prep, ScriptPubkey(address), out.result.val)
            /\ UNCHANGED <<now, settings, overflow_checks, signature_map, probe>>

\* A panic inside login ends the call without a result.  A host that traps
\* rolls the call's writes back; one that unwinds keeps the pruning done.
Login ==
    \E address \in LoginAddrs :
      \E try \in Attempts(address) :
        LET out == LoginOf(address, try)
        IN  /\ siwb_messages' \in
                 (IF out.result.kind = "panic"
                  THEN {siwb_messages, out.messages} ELSE {out.messages})
            /\ signature_map' = out.sigmap
            /\ credit' = [credit EXCEPT ![address] =
                              IF out.result.kind = "Ok" THEN @ - 1 ELSE @]
            /\ last_prep' = IF out.removed
                            THEN MapRemove(last_prep, ScriptPubkey(address))
                            ELSE last_prep
            /\ UNCHANGED <<now, settings, overflow_checks, prepares, probe>>

Next == Tick \/ PrepareLogin \/ Login

Spec == Init /\ [][Next]_vars

\* ------------------------------------- a signature map with a backlog
\* The seed hashes of earlier logins of other addresses.
BacklogKey(i) == hash_bytes(<<"seed", <<"backlog", ToString(i)>>>>)
BacklogEntry(expires_at) ==
    [value |-> [hash_of_pubkey |-> <<7>>, hash_of_expiration |-> 0],
     expires_at |-> expires_at]
\* The entries left by earlier logins: their expiry times, in key order.
BacklogExpiries ==
    {[i \in 1..13 |-> IF i <= 6 THEN 1 ELSE IF i <= 12 THEN 0 ELSE MaxTime + 2],
     [i \in 1..3 |-> i - 1]}
Backlog(expiries) ==
    [k \in {BacklogKey(i) : i \in DOMAIN expiries} |->
        BacklogEntry(expiries[CHOOSE i \in DOMAIN expiries : BacklogKey(i) = k])]
\* The caller hands login a signature map that earlier logins have filled.
InitPrune ==
    /\ now = 0
    /\ settings = [ttl |-> 1, session_expires_in |-> 3]
    /\ overflow_checks = FALSE
    /\ siwb_messages = EmptyMap
    /\ signature_map \in {Backlog(e) : e \in BacklogExpiries}
    /\ probe = NoProbe
    /\ prepares = 0
    /\ credit = [a \in LoginAddrs |-> 0]
    /\ last_prep = EmptyMap
SpecPrune == InitPrune /\ [][Next]_vars

\* ------------------------------------------- the pure functions, applied
\* The protocol state of a run that only applies a pure function.
Idle ==
    /\ now = 0
    /\ settings \in {[ttl |-> 1, session_expires_in |-> 2]}
    /\ siwb_messages = EmptyMap
    /\ signature_map = EmptyMap
    /\ prepares = 0
    /\ credit = [a \in LoginAddrs |-> 0]
    /\ last_prep = EmptyMap
Pending(fn, in) == [fn |-> fn, in |-> in, done |-> FALSE, result |-> Err("pending")]
Apply(result) ==
    /\ ~probe.done
    /\ probe' = [probe EXCEPT !.done = TRUE, !.result = result]
    /\ UNCHANGED <<now, settings, overflow_checks, siwb_messages, signature_map,
                   prepares, credit, last_prep>>

\* calculate_sig_recovery on every u8 and every Option<u8>, in both builds.
Bytes == 0..(U8 - 1)
InitRecid ==
    /\ Idle
    /\ overflow_checks \in BOOLEAN
    /\ probe \in {Pending("calculate_sig_recovery", [v |-> v, chain_id |-> c]) :
                     v \in Bytes, c \in {None} \cup {Some(n) : n \in Bytes}}
ApplyRecid ==
    /\ probe.fn = "calculate_sig_recovery"
    /\ Apply(calculate_sig_recovery(probe.in.v, probe.in.chain_id, overflow_checks))
SpecRecid == InitRecid /\ [][ApplyRecid]_vars

\* recover_pub_key_compact on signatures of each length: 65 bytes with every
\* first byte, 64 bytes, 66 bytes, empty, 33 bytes, all zero.
\* The digests of the first address's challenges of time 0 and of time 1.
ProbeDigest == msg_hash(MessageString([address |-> AddrList[1], issued_at |-> 0]))
OtherDigest == msg_hash(MessageString([address |-> AddrList[1], issued_at |-> 1]))
SigProbes ==
    {Sig65(v, p, ProbeDigest, Rho(p)) : v \in Bytes, p \in Signers} \cup
    {Sig64(p, ProbeDigest, rho) : p \in Signers, rho \in {0, 1}} \cup
    {Sig65(31 + Rho(Owner1), Owner1, ProbeDigest, Rho(Owner1)) \o <<0>>,
     <<>>, Zeros(33), Zeros(65)}
InitRecover ==
    /\ Idle
    /\ overflow_checks \in BOOLEAN
    /\ probe \in {Pending("recover_pub_key_compact", [sig |-> sb, hash |-> h]) :
                     sb \in SigProbes, h \in {ProbeDigest, OtherDigest}}
ApplyRecover ==
    /\ probe.fn = "recover_pub_key_compact"
    /\ Apply(recover_pub_key_compact(probe.in.sig, probe.in.hash, None, overflow_checks))
SpecRecover == InitRecover /\ [][ApplyRecover]_vars

\* varint_buf_num on lengths around each threshold and each sign bit.
LimbProbes == {0, 1, 252, 253, 255, 256, Limb \div 2 - 1, Limb \div 2, Limb - 1}
InitVarint ==
    /\ Idle
    /\ overflow_checks = FALSE
    /\ probe \in {Pending("varint_buf_num", [n |-> <<l0, l1, l2, l3>>]) :
                     l0 \in LimbProbes, l1 \in LimbProbes, l2 \in LimbProbes,
                     l3 \in {l \in LimbProbes : l < Limb \div 2}}
ApplyVarint ==
    /\ probe.fn = "varint_buf_num"
    /\ Apply(varint_buf_num(probe.in.n))
SpecVarint == InitVarint /\ [][ApplyVarint]_vars

\* verify_address on the text of every address of every point, with every
\* encoding of every point and with bytes that are no key.
\* Texts with none of the eight prefixes: regtest bech32, upper-case bech32,
\* the empty string and a text that is no address.
OddTexts ==
    {<<"b", "c", "r", "t", "1", "q", "payload">>,
     <<"b", "c", "r", "t", "1", "p", "payload">>,
     <<"B", "C", "1", "Q", "PAYLOAD">>,
     <<>>,
     <<"x">>}
AddressTexts ==
    {AddrToString(GenuineAddress(p, kind, network)) :
        p \in AllPoints, kind \in Kinds, network \in Networks} \cup OddTexts
KeyEncodings ==
    {Compressed(p) : p \in AllPoints} \cup {Uncompressed(p) : p \in AllPoints}
        \cup {<<>>, <<5, 1>>}
InitVerify ==
    /\ Idle
    /\ overflow_checks = FALSE
    /\ probe \in {Pending("verify_address", [address |-> a, pub_bytes |-> k]) :
                     a \in AddressTexts, k \in KeyEncodings}
ApplyVerify ==
    /\ probe.fn = "verify_address"
    /\ Apply(verify_address(probe.in.address, probe.in.pub_bytes))
SpecVerify == InitVerify /\ [][ApplyVerify]_vars

\* ----------------------------------------------------------------- claims
KeyOf(address) == ScriptPubkey(address)
\* A challenge is stored for the address's script and has not expired.
Live(address) ==
    /\ KeyOf(address) \in DOMAIN siwb_messages
    /\ siwb_messages[KeyOf(address)].issued_at + settings.ttl >= now

\* With a live challenge and a valid session key, the login with a valid
\* signature succeeds and leaves no challenge for the address.
FirstLoginSucceeds ==
    \A a \in LoginAddrs :
        Live(a) =>
            LET out == LoginOf(a, ValidTry(a))
            IN  out.result.kind = "Ok" /\ KeyOf(a) \notin DOMAIN out.messages
\* While no prepare_login is outstanding for the address's script, every
\* login for the address fails with the challenge-not-found error.
LaterLoginNotFound ==
    \A a \in LoginAddrs :
        KeyOf(a) \notin DOMAIN last_prep =>
            \A try \in Attempts(a) : LoginOf(a, try).result.kind = "MessageNotFound"

\* C1, as stated: single use of a challenge, and for every address string A
\* the successful logins for A never outnumber the prepare_login(A) calls
\* before them.
C1_SingleUsePerAddress ==
    /\ FirstLoginSucceeds
    /\ LaterLoginNotFound
    /\ \A a \in LoginAddrs : credit[a] >= 0

\* C1, amended: single use of a challenge, counted per script: with a live
\* challenge and a valid session key the login with a valid signature
\* succeeds and removes the challenge; until the next prepare_login for the
\* same script every login fails with the challenge-not-found error; and
\* the successful logins for the addresses of one script never outnumber
\* the prepare_login calls for the addresses of that script.
C1_SingleUsePerScript ==
    /\ FirstLoginSucceeds
    /\ LaterLoginNotFound
    /\ \A a \in LoginAddrs : Sum(credit, SameScript(KeyOf(a))) >= 0

\* C1's case: one prepare_login, one successful login for the same address
\* whose delegation is in the signature map, and the same login again is
\* answered with the challenge-not-found error.
C1_Consumed ==
    \E a \in LoginAddrs :
        /\ prepares = 1
        /\ \A b \in LoginAddrs : credit[b] = 0
        /\ hash_bytes(generate_seed(a)) \in DOMAIN signature_map
        /\ KeyOf(a) \notin DOMAIN last_prep
        /\ LoginOf(a, ValidTry(a)).result.kind = "MessageNotFound"

\* C2: address binding: whenever the address derived from the recovered key
\* differs from the claimed address string, login returns AddressMismatch,
\* keeps the challenge and puts no delegation in the signature map.
C2_AddressBinding ==
    \A a \in LoginAddrs :
        \A try \in Attempts(a) :
            LET out == LoginOf(a, try)
                derived == verify_address(AddrToString(a), out.recovered)
            IN  (out.recovered # <<>> /\ derived # Ok(AddrToString(a))) =>
                    /\ out.result.kind = "AddressMismatch"
                    /\ ~out.removed
                    /\ ~out.put

\* C3: expiry: a stored challenge with issued_at + ttl < now makes every
\* login for its address fail with the challenge-not-found error, whatever
\* the signature, and a challenge with issued_at + ttl >= now survives the
\* pruning pass and is the one the lookup returns.
C3_Expiry ==
    \A a \in LoginAddrs :
        /\ (/\ KeyOf(a) \in DOMAIN siwb_messages
            /\ siwb_messages[KeyOf(a)].issued_at + settings.ttl < now) =>
                \A try \in Attempts(a) : LoginOf(a, try).result.kind = "MessageNotFound"
        /\ (/\ KeyOf(a) \in DOMAIN siwb_messages
            /\ siwb_messages[KeyOf(a)].issued_at + settings.ttl >= now) =>
                \A b \in LoginAddrs :
                    LET got == PruneThenGet(KeyOf(b))
                    IN  /\ KeyOf(a) \in DOMAIN got.messages
                        /\ got.messages[KeyOf(a)] = siwb_messages[KeyOf(a)]
                        /\ KeyOf(b) = KeyOf(a) => got.message = Ok(siwb_messages[KeyOf(a)])

\* C3's case: a challenge is stored, its issued_at + ttl is less than now,
\* and the login with a valid signature is answered challenge-not-found.
C3_ExpiredRefused ==
    \E a \in LoginAddrs :
        /\ KeyOf(a) \in DOMAIN siwb_messages
        /\ siwb_messages[KeyOf(a)].issued_at + settings.ttl < now
        /\ LoginOf(a, ValidTry(a)).result.kind = "MessageNotFound"
        /\ KeyOf(a) \notin DOMAIN LoginOf(a, ValidTry(a)).messages

\* C4: atomicity of login: every login call either both removes the
\* challenge of the address and inserts the delegation hash in the
\* signature map, or does neither.
C4_Atomic ==
    \A a \in LoginAddrs :
        \A try \in Attempts(a) :
            LET out == LoginOf(a, try)
                key == hash_bytes(generate_seed(a))
                gone == KeyOf(a) \in DOMAIN PruneThenGet(KeyOf(a)).messages
                            /\ KeyOf(a) \notin DOMAIN out.messages
                inserted == out.put /\ key \in DOMAIN out.sigmap
            IN  gone <=> inserted

\* C5: prepare_login always succeeds and stores the new challenge under the
\* address's key whatever was stored there, leaving the other keys alone;
\* the store holds, per key, the challenge of the latest prepare_login that
\* no login consumed, and such a challenge is missing only when expired.
C5_Upsert ==
    /\ \A a \in LoginAddrs :
          LET out == prepare_login(a)
          IN  /\ IsOk(out.result)
              /\ out.result.val = [address |-> a, issued_at |-> now]
              /\ DOMAIN out.messages = DOMAIN siwb_messages \cup {KeyOf(a)}
              /\ out.messages[KeyOf(a)] = out.result.val
              /\ \A k \in DOMAIN siwb_messages \ {KeyOf(a)} :
                     out.messages[k] = siwb_messages[k]
    /\ \A k \in DOMAIN siwb_messages :
          k \in DOMAIN last_prep /\ siwb_messages[k] = last_prep[k]
    /\ \A k \in DOMAIN last_prep \ DOMAIN siwb_messages :
          last_prep[k].issued_at + settings.ttl < now

\* C5's case: two prepare_login calls at different times for one script
\* with no successful login between them; the store holds the second
\* challenge, and a further prepare_login would replace it again.
C5_Replaced ==
    \E a \in LoginAddrs :
        /\ Sum(credit, SameScript(KeyOf(a))) = 2
        /\ signature_map = EmptyMap
        /\ KeyOf(a) \in DOMAIN siwb_messages
        /\ siwb_messages[KeyOf(a)].issued_at = 1
        /\ now = 2
        /\ prepare_login(a).messages[KeyOf(a)].issued_at = 2

\* C6: error collapse: with a live challenge, every failure of step 3 makes
\* login return AddressMismatch; none aborts or returns another error.
C6_ErrorCollapse ==
    \A a \in LoginAddrs :
        \A try \in Attempts(a) :
            LET out == LoginOf(a, try)
            IN  (Live(a) /\ out.step3 # "ok") => out.result.kind = "AddressMismatch"

\* C7: the expiration a successful login returns, and the one in the
\* delegation whose hash it stores, is the challenge's issued_at plus
\* session_expires_in, or the maximum u64 when that sum exceeds it; the time
\* of the login call does not enter.
C7_Expiration ==
    \A a \in LoginAddrs :
        \A try \in Attempts(a) :
            LET out == LoginOf(a, try)
                sum == siwb_messages[KeyOf(a)].issued_at + settings.session_expires_in
                due == IF sum > U64Max THEN U64Max ELSE sum
            IN  out.result.kind = "Ok" =>
                    /\ out.result.expiration = due
                    /\ out.sigmap[hash_bytes(generate_seed(a))].value.hash_of_expiration = due

\* C7's case: a login succeeds later than its challenge was issued, and the
\* sum issued_at + session_expires_in exceeds the maximum, which is returned.
C7_Saturated ==
    \E a \in LoginAddrs :
        /\ Live(a)
        /\ siwb_messages[KeyOf(a)].issued_at < now
        /\ siwb_messages[KeyOf(a)].issued_at + settings.session_expires_in > U64Max
        /\ LoginOf(a, ValidTry(a)).result.kind = "Ok"
        /\ LoginOf(a, ValidTry(a)).result.expiration = U64Max

\* verify_address has been applied to the text of the address of p's
\* compressed key under the pairing, with that compressed key.
VerifiedGenuine(p, kind, network) ==
    /\ probe.fn = "verify_address"
    /\ probe.done
    /\ probe.in.address = AddrToString(GenuineAddress(p, kind, network))
    /\ probe.in.pub_bytes = Compressed(p)

\* C8: for every key and each of the eight type/network pairings,
\* verify_address on the address derived from the compressed key under the
\* pairing returns Ok with the input address.
C8_GenuineVerifies ==
    \A p \in AllPoints, kind \in Kinds, network \in Networks :
        VerifiedGenuine(p, kind, network) => probe.result = Ok(probe.in.address)

\* C8's case: verify_address has answered for a testnet taproot address and
\* for a testnet P2PKH address, each with the key it was derived from.
C8_Verified ==
    \E p \in AllPoints, kind \in {"P2tr", "P2pkh"} :
        VerifiedGenuine(p, kind, "Testnet") /\ IsOk(probe.result)

\* C9: a 64-byte signature reaches the recovery step: recovery neither
\* aborts nor fails because of the length, and the signature of a signer
\* over the digest recovers a key.
C9_BothFormats ==
    (/\ probe.fn = "recover_pub_key_compact"
     /\ probe.done
     /\ Len(probe.in.sig) = 64) =>
        /\ ~IsPanic(probe.result)
        /\ probe.in.hash = ProbeDigest => IsOk(probe.result)

\* Repeated subtraction of 4 while the value exceeds 3, over the integers.
RECURSIVE ReduceBy4(_)
ReduceBy4(n) == IF n > 3 THEN ReduceBy4(n - 4) ELSE n

\* C10: for every v and every optional chain id, calculate_sig_recovery
\* returns a value in [0,3]: v when v is 0 or 1, else v - 27, or
\* v - (chain_id*2 + 35) with a chain id, reduced by repeated subtraction
\* of 4, the arithmetic neither underflowing nor overflowing 8 bits.
C10_RecoveryId ==
    (probe.fn = "calculate_sig_recovery" /\ probe.done) =>
        LET v == probe.in.v
            c == probe.in.chain_id
            start == IF c = None THEN v - 27 ELSE v - (c[1] * 2 + 35)
            due == IF v \in {0, 1} THEN v ELSE ReduceBy4(start)
        IN  /\ IsOk(probe.result)
            /\ probe.result.val \in 0..3
            /\ probe.result.val = due

\* The prefixes of the selection and the pairing each stands for.
PrefixTable ==
    {<<<<"b", "c", "1", "q">>, "P2wpkh", "Bitcoin">>,
     <<<<"b", "c", "1", "p">>, "P2tr", "Bitcoin">>,
     <<<<"1">>, "P2pkh", "Bitcoin">>,
     <<<<"3">>, "P2sh", "Bitcoin">>,
     <<<<"t", "b", "1", "q">>, "P2wpkh", "Testnet">>,
     <<<<"m">>, "P2pkh", "Testnet">>,
     <<<<"n">>, "P2pkh", "Testnet">>,
     <<<<"2">>, "P2sh", "Testnet">>,
     <<<<"t", "b", "1", "p">>, "P2tr", "Testnet">>}
\* verify_address has been applied to a text with p's compressed key.
VerifiedWith(p) ==
    /\ probe.fn = "verify_address"
    /\ probe.done
    /\ probe.in.pub_bytes = Compressed(p)

\* C11: the type and network come from the prefix alone: with a valid
\* compressed key, a text with one of the eight prefixes gets the address
\* of the key under the prefix's pairing, and a text with none of them gets
\* the key's P2TR mainnet address; no text is rejected as of unknown type.
C11_PrefixSelection ==
    \A p \in AllPoints :
        VerifiedWith(p) =>
            /\ \A row \in PrefixTable :
                  StartsWith(probe.in.address, row[1]) =>
                      probe.result = Ok(AddrToString(GenuineAddress(p, row[2], row[3])))
            /\ (\A row \in PrefixTable : ~StartsWith(probe.in.address, row[1])) =>
                  probe.result = Ok(AddrToString(GenuineAddress(p, "P2tr", "Bitcoin")))

\* C11's case: verify_address has answered for a regtest text, which has
\* none of the prefixes, with a P2TR mainnet address.
C11_Fallback ==
    \E p \in AllPoints :
        /\ VerifiedWith(p)
        /\ probe.in.address = <<"b", "c", "r", "t", "1", "q", "payload">>
        /\ probe.result = Ok(AddrToString(GenuineAddress(p, "P2tr", "Bitcoin")))

\* The signature-map keys a login call removed and did not put back.
Dropped(out) == DOMAIN signature_map \ DOMAIN out.sigmap

SeedHashes == {hash_bytes(generate_seed(a)) : a \in LoginAddrs}

\* C13: no accumulation in the signature map: it holds at most one entry
\* per seed hash, and a login that puts a delegation leaves exactly one
\* entry under the address's seed hash, the hash of the new delegation,
\* without adding any other key.
C13_NoAccumulation ==
    /\ DOMAIN signature_map \subseteq SeedHashes
    /\ \A a \in LoginAddrs :
          \A try \in Attempts(a) :
              LET out == LoginOf(a, try)
                  own == hash_bytes(generate_seed(a))
              IN  out.result.kind = "Ok" =>
                      /\ own \in DOMAIN out.sigmap
                      /\ out.sigmap[own].value =
                            [hash_of_pubkey |-> try[3][1],
                             hash_of_expiration |-> out.result.expiration]
                      /\ DOMAIN out.sigmap \subseteq DOMAIN signature_map \cup {own}

\* C13's case: the map holds the delegation hash of an earlier login of the
\* address, and the login with a valid signature over a newer challenge
\* puts another hash under the same key and adds no key.
C13_Replaced ==
    \E a \in LoginAddrs :
        LET out == LoginOf(a, ValidTry(a))
            own == hash_bytes(generate_seed(a))
        IN  /\ own \in DOMAIN signature_map
            /\ out.result.kind = "Ok"
            /\ out.sigmap[own].value # signature_map[own].value
            /\ DOMAIN out.sigmap = DOMAIN signature_map

\* One little-endian u64 write of n.
LE64(n) == LE16(n[1]) \o LE16(n[2]) \o LE16(n[3]) \o LE16(n[4])

\* C14: varint_buf_num is Bitcoin CompactSize: the byte n below 253, 253 and
\* the two bytes of n below 2^16, 254 and the four bytes of n below 2^32,
\* and otherwise 255 and the eight bytes of one little-endian u64 write.
C14_CompactSize ==
    (probe.fn = "varint_buf_num" /\ probe.done) =>
        LET n == probe.in.n
            high == <<n[2], n[3], n[4]>>
        IN  /\ (high = <<0, 0, 0>> /\ n[1] < 253) => probe.result = <<n[1]>>
            /\ (high = <<0, 0, 0>> /\ n[1] >= 253) =>
                  probe.result = <<253, n[1] % 256, n[1] \div 256>>
            /\ (n[3] = 0 /\ n[4] = 0 /\ n[2] > 0) =>
                  probe.result = <<254>> \o SubSeq(LE64(n), 1, 4)
            /\ (n[3] > 0 \/ n[4] > 0) => probe.result = <<255>> \o LE64(n)

\* C14's case: a length of 2^32 or more whose low 32 bits have the top bit
\* set has been written, as 255 and its eight little-endian bytes.
C14_LowWordNegative ==
    /\ probe.fn = "varint_buf_num"
    /\ probe.done
    /\ probe.in.n[3] > 0
    /\ probe.in.n[2] >= Limb \div 2
    /\ probe.in.n[1] > 0
    /\ probe.result = <<255>> \o LE64(probe.in.n)

\* C15: postcondition of a successful login: the signature map it leaves
\* maps the hash of the address's seed to the hash of the delegation built
\* from the supplied session key and the returned expiration, whatever
\* the pruning of the call removed; and the returned key
\* is the one built from the supplied canister id and that seed.
C15_Postcondition ==
    \A a \in LoginAddrs :
        \A try \in Attempts(a) :
            LET out == LoginOf(a, try)
                seed == generate_seed(a)
                delegation == create_delegation(try[3][1], out.result.expiration)
            IN  out.result.kind = "Ok" =>
                    /\ IsOk(delegation)
                    /\ hash_bytes(seed) \in DOMAIN out.sigmap
                    /\ out.sigmap[hash_bytes(seed)].value = create_delegation_hash(delegation.val)
                    /\ out.result.user_canister_pubkey =
                          create_user_canister_pubkey(try[3][2], seed).val

\* C15's case: a login succeeds in a call whose pruning removes entries,
\* and the map it leaves holds the delegation under the seed hash.
C15_PrunedAndPut ==
    \E a \in LoginAddrs :
        LET out == LoginOf(a, ValidTry(a))
        IN  /\ out.result.kind = "Ok"
            /\ Dropped(out) # {}
            /\ hash_bytes(generate_seed(a)) \notin DOMAIN signature_map
            /\ hash_bytes(generate_seed(a)) \in DOMAIN out.sigmap

\* C16: for P2PKH, P2WPKH and P2SH-wrapped segwit on both networks,
\* verify_address with the uncompressed encoding of a key returns the
\* address of the key's compressed encoding.
C16_CompressedFirst ==
    \A p \in AllPoints, kind \in {"P2pkh", "P2wpkh", "P2sh"}, network \in Networks :
        (/\ probe.fn = "verify_address"
         /\ probe.done
         /\ probe.in.address = AddrToString(GenuineAddress(p, kind, network))
         /\ probe.in.pub_bytes = Uncompressed(p)) =>
            probe.result = Ok(AddrToString(GenuineAddress(p, kind, network)))

\* The stored challenges whose issued_at + ttl is not less than now.
Unexpired ==
    {k \in DOMAIN siwb_messages : siwb_messages[k].issued_at + settings.ttl >= now}

\* C17: frame on failed verification: a login that returns the
\* challenge-not-found error or AddressMismatch leaves the signature map as
\* it was and the challenge store with exactly its unexpired challenges,
\* unchanged; after AddressMismatch the address's challenge is among them,
\* and the login with a valid signature still succeeds.
C17_FailureFrame ==
    \A a \in LoginAddrs :
        \A try \in Attempts(a) :
            LET out == LoginOf(a, try)
            IN  out.result.kind \in {"MessageNotFound", "AddressMismatch"} =>
                    /\ out.sigmap = signature_map
                    /\ DOMAIN out.messages = Unexpired
                    /\ \A k \in Unexpired : out.messages[k] = siwb_messages[k]
                    /\ out.result.kind = "AddressMismatch" =>
                          /\ KeyOf(a) \in Unexpired
                          /\ LoginOf(a, ValidTry(a)).result.kind = "Ok"

\* C17's case: a login returns AddressMismatch while the signature map
\* holds expired entries and the store holds the address's live challenge
\* and an expired one of another script; only the expired challenge is gone
\* afterwards.
C17_MismatchKeeps ==
    \E a \in LoginAddrs :
        \E try \in Attempts(a) :
            LET out == LoginOf(a, try)
            IN  /\ out.result.kind = "AddressMismatch"
                /\ \E k \in DOMAIN signature_map : signature_map[k].expires_at < now
                /\ DOMAIN siwb_messages \ Unexpired # {}
                /\ DOMAIN out.messages = {KeyOf(a)}

\* C18: every successful login returns an expiration that is not earlier
\* than the time of the call, whatever the ttl and session_expires_in.
C18_NotExpiredAtIssue ==
    \A a \in LoginAddrs :
        \A try \in Attempts(a) :
            LET out == LoginOf(a, try)
            IN  out.result.kind = "Ok" => out.result.expiration >= now

\* The key recovered from a decoded signature over the address's stored
\* challenge text.
RecoveredFor(a, signature_bytes) ==
    recover_pub_key_compact(signature_bytes,
                            msg_hash(MessageString(siwb_messages[KeyOf(a)])),
                            None, overflow_checks)

\* C19: with a live challenge and a signature a key is recovered from,
\* login succeeds only if the decoded public_key is that key in its 33-byte
\* compressed encoding; with any other decoded bytes it returns
\* AddressMismatch and leaves the challenge and the signature map alone.
C19_KeyEquality ==
    \A a \in LoginAddrs :
        \A try \in Attempts(a) :
            (Live(a) /\ try[1].valid /\ try[2].valid
                /\ IsOk(RecoveredFor(a, try[1].bytes))) =>
                LET out == LoginOf(a, try)
                    key == RecoveredFor(a, try[1].bytes).val
                IN  /\ out.result.kind = "Ok" =>
                          /\ try[2].bytes = key
                          /\ Len(key) = 2
                          /\ key[1] \in {2, 3}
                    /\ try[2].bytes # key =>
                          /\ out.result.kind = "AddressMismatch"
                          /\ KeyOf(a) \in DOMAIN out.messages
                          /\ out.messages[KeyOf(a)] = siwb_messages[KeyOf(a)]
                          /\ out.sigmap = signature_map

\* C19's case: with a live challenge, the owner's signature is sent with
\* the uncompressed encoding of the owner's key, and login returns
\* AddressMismatch.
C19_UncompressedRefused ==
    \E a \in LoginAddrs :
        \E try \in Attempts(a) :
            /\ Live(a)
            /\ try[1] = OwnSig(Owner(a), a)
            /\ try[2] = Encoded(Uncompressed(Owner(a)))
            /\ RecoveredFor(a, try[1].bytes) = Ok(Compressed(Owner(a)))
            /\ LoginOf(a, try).result.kind = "AddressMismatch"

\* With session_expires_in not below the ttl, no successful login returns
\* an expiration earlier than the time of the call.
LongSessionsNotExpired ==
    settings.session_expires_in >= settings.ttl => C18_NotExpiredAtIssue

\* prepare_login changes the store under the address's script and nowhere
\* else, expired challenges of other scripts included.
PrepareTouchesOwnKey ==
    \A a \in LoginAddrs :
        LET out == prepare_login(a)
        IN  /\ DOMAIN out.messages = DOMAIN siwb_messages \cup {KeyOf(a)}
            /\ \A k \in DOMAIN siwb_messages \ {KeyOf(a)} :
                  out.messages[k] = siwb_messages[k]
\* A login for a leaves the unexpired challenge of b as it is, and b's
\* login with a valid signature succeeds.
LoginSpares(a, b) ==
    Live(b) =>
        /\ \A try \in Attempts(a) :
              LET out == LoginOf(a, try)
              IN  /\ KeyOf(b) \in DOMAIN out.messages
                  /\ out.messages[KeyOf(b)] = siwb_messages[KeyOf(b)]
        /\ LoginOf(b, ValidTry(b)).result.kind = "Ok"

\* C20, as stated: per-address isolation: prepare_login(A) changes only
\* the challenge under A's script bytes, and a login for A never removes or
\* replaces the unexpired challenge of a different address B.
C20_IsolationPerAddress ==
    /\ PrepareTouchesOwnKey
    /\ \A a \in LoginAddrs : \A b \in LoginAddrs \ {a} : LoginSpares(a, b)

\* C20, amended: isolation per script: prepare_login(A) changes only the
\* challenge under A's script bytes, and a login for A never removes or
\* replaces the unexpired challenge of an address B of a different script,
\* whose login with a valid signature still succeeds.
C20_IsolationPerScript ==
    /\ PrepareTouchesOwnKey
    /\ \A a \in LoginAddrs :
          \A b \in {c \in LoginAddrs : KeyOf(c) # KeyOf(a)} : LoginSpares(a, b)

\* C20's case: two addresses of different scripts have live challenges,
\* the login for the first succeeds, and the challenge of the second is
\* still stored afterwards.
C20_OtherKept ==
    \E a \in LoginAddrs :
        \E b \in LoginAddrs :
            LET out == LoginOf(a, ValidTry(a))
            IN  /\ KeyOf(a) # KeyOf(b)
                /\ Live(a)
                /\ Live(b)
                /\ out.result.kind = "Ok"
                /\ DOMAIN out.messages = {KeyOf(b)}

====
